---- MODULE Spec2Model ----
(***************************************************************************)
(* Model of src/app.py: the GeoIPT event-logging backend.                  *)
(*   POST    /api/log_evento      -> LogEvento                             *)
(*   OPTIONS /api/log_evento      -> Preflight                             *)
(*   GET     /api/resumen_diario  -> ResumenDiario                         *)
(* The bucket is a map from blob names to blob contents, the clock is a    *)
(* tick counter, uuid4 and the outcomes of the remote services (GCS, SMTP) *)
(* are nondeterministic inputs of the handlers.                            *)
(***************************************************************************)
EXTENDS Integers, Sequences, FiniteSets, TLC

VARIABLES
    cfg,       \* LOGS_BUCKET, SMTP_USER, SMTP_PASS, SMTP_TO: set or not
    clock,     \* the UTC clock, in ticks
    store,     \* the bucket: blob name -> blob content
    last,      \* the last request handled: what was asked, and what the clock,
               \* uuid4, the bucket and the SMTP relay answered while it ran
    accepted,  \* how many POST requests were answered 200
    resp,      \* the response to the last request
    listing,   \* the blob names list_blobs returned to it, in order
    eventos,   \* what _leer_eventos_fecha returned to it
    csv_text,  \* the CSV it rendered
    mail       \* the mail it handed to the SMTP relay

vars == <<cfg, clock, store, last, accepted, resp, listing, eventos, csv_text, mail>>

----------------------------------------------------------------------------
(* Bounds of the model *)

\* POST requests answered 200 in one run
MaxRequests == 3
\* seconds in one day
SecsPerDay == 2
\* blobs in the bucket when a run over a given bucket starts
MaxObjects == 2

\* the clock counts seconds; a run ends with the first second of the second day
MaxClock == SecsPerDay
SecOf(t) == t
DayOf(t) == SecOf(t) \div SecsPerDay
Days == 0..DayOf(MaxClock)

----------------------------------------------------------------------------
(* JSON values: <<tag, text>> *)

Absent == <<"absent", "">>
Str(s) == <<"str", s>>
Obj(s) == <<"obj", s>>
Lst(s) == <<"list", s>>

\* Python truth value of a decoded JSON value
Truthy(v) == v \notin {Absent, Str(""), Obj("{}"), Lst("[]")}
\* dict keys must be hashable: lists and dicts are not
Hashable(v) == v[1] \notin {"obj", "list"}
\* str(v), as csv.writer renders a cell
PyStr(v) == v[2]
\* json.dumps of one value
DumpsValue(v) == IF v[1] = "str" THEN "\"" \o v[2] \o "\"" ELSE v[2]

\* dict.get(k, default)
Get(d, k, default) == IF k \in DOMAIN d THEN d[k] ELSE default

EventFields == <<"tipo", "detalle", "fecha", "ip", "user_agent">>

\* json.dumps of a dict: the members in insertion order
JsonDumps(d, order) ==
    [syntax |-> "object",
     pairs  |-> [i \in 1..Len(order) |-> <<order[i], d[order[i]]>>],
     val    |-> Absent]

\* json.loads: raises on text that is not JSON, else the decoded value
JsonLoadsRaises(text) == text.syntax = "garbage"
JsonLoads(text) ==
    IF text.syntax = "object"
    THEN [isDict |-> TRUE,
          d |-> [k \in {text.pairs[i][1] : i \in 1..Len(text.pairs)} |->
                   LET at == CHOOSE i \in 1..Len(text.pairs) :
                                 /\ text.pairs[i][1] = k
                                 /\ \A j \in 1..Len(text.pairs) :
                                      text.pairs[j][1] = k => j <= i
                   IN text.pairs[at][2]],
          val |-> Absent]
    ELSE [isDict |-> FALSE, d |-> [k \in {} |-> Absent], val |-> text.val]

----------------------------------------------------------------------------
(* Requests *)

\* a POST body: no body, text that is not JSON, a JSON value that is no
\* object, or a JSON object with or without the members tipo and detalle
Body(kind, val, tipo, detalle) ==
    [kind |-> kind, val |-> val, tipo |-> tipo, detalle |-> detalle]

Bodies ==
    { Body("empty", Absent, Absent, Absent),
      Body("invalid", Absent, Absent, Absent),
      Body("value", Lst("[1]"), Absent, Absent),
      Body("value", Lst("[]"), Absent, Absent),
      Body("object", Absent, Str("click"), Obj("{x:1}")),
      Body("object", Absent, Str("click"), Obj("{x:2}")),
      Body("object", Absent, Absent, Obj("{}")),
      Body("object", Absent, Str("view"), Absent),
      Body("object", Absent, Lst("[1]"), Obj("{}")) }

RemoteAddrs == {Str("10.0.0.1")}
ForwardedFor == {Absent, Str("203.0.113.7")}
UserAgents == {Str("Mozilla")}

Requests ==
    [body : Bodies, remote_addr : RemoteAddrs, xff : ForwardedFor, ua : UserAgents]

\* uuid4().hex[:6]
Suffixes == {"a1b2c3", "d4e5f6"}

\* request.get_json(force=True, silent=True): None unless the body is JSON
GetJsonIsNone(body) == body.kind \in {"empty", "invalid"}

\* `get_json(...) or {}`: the body when it is truthy, else the empty dict
DataIsDict(body) ==
    \/ GetJsonIsNone(body)
    \/ body.kind = "object"
    \/ body.kind = "value" /\ ~Truthy(body.val)

\* the dict `data` of log_evento, when it is one
Data(body) ==
    IF body.kind = "object"
    THEN [k \in {f \in {"tipo", "detalle"} : body[f] # Absent} |-> body[k]]
    ELSE [k \in {} |-> Absent]

\* now.isoformat()
IsoFormat(t) == Str(ToString(t))

\* an evento whose default type is "unknown"
EventoUnknown(req, now) ==
    [k \in {"tipo", "detalle", "fecha", "ip", "user_agent"} |->
        CASE k = "tipo" -> Get(Data(req.body), "tipo", Str("unknown"))
          [] k = "detalle" -> Get(Data(req.body), "detalle", Obj("{}"))
          [] k = "fecha" -> IsoFormat(now)
          [] k = "ip" -> IF req.xff # Absent THEN req.xff ELSE req.remote_addr
          [] k = "user_agent" -> IF req.ua # Absent THEN req.ua ELSE Str("")]

\* the dict `evento` of log_evento
Evento(req, now) ==
    [k \in {"tipo", "detalle", "fecha", "ip", "user_agent"} |->
        CASE k = "tipo" -> Get(Data(req.body), "tipo", Str("desconocido"))
          [] k = "detalle" -> Get(Data(req.body), "detalle", Obj("{}"))
          [] k = "fecha" -> IsoFormat(now)
          [] k = "ip" -> IF req.xff # Absent THEN req.xff ELSE req.remote_addr
          [] k = "user_agent" -> IF req.ua # Absent THEN req.ua ELSE Str("")]

\* f"events/{date_folder}/{ts_compacto}_{random_suffix}.json": date_folder is
\* read from the clock again (_today_str), after `now` was taken
BlobName(now, today, suffix) ==
    [folder |-> DayOf(today), ts |-> SecOf(now), suffix |-> suffix, ext |-> ".json"]

\* a blob: its bytes decode as UTF-8 text or they do not
Blob(text) == [enc |-> "utf8", text |-> text]

\* a try block whose failed upload leaves the blob behind
LogEventoRunLeavesBlob(req, now, today, suffix, up) ==
    LET key == BlobName(now, today, suffix)
        content == Blob(JsonDumps(Evento(req, now), EventFields))
        done(raised, wrote) ==
            [raised |-> raised, wrote |-> wrote, key |-> key, content |-> content]
    IN  IF ~DataIsDict(req.body)
        THEN done("'list' object has no attribute 'get'", FALSE)
        ELSE IF ~cfg.bucket
        THEN done("LOGS_BUCKET no esta configurado", FALSE)
        ELSE IF ~up
        THEN done("upload failed", TRUE)
        ELSE done("", TRUE)

\* what the try block of log_evento comes to: the exception it raised, if
\* any, and the blob it uploaded, if any
LogEventoRun(req, now, today, suffix, up) ==
    LET key == BlobName(now, today, suffix)
        content == Blob(JsonDumps(Evento(req, now), EventFields))
        done(raised, wrote) ==
            [raised |-> raised, wrote |-> wrote, key |-> key, content |-> content]
    IN  IF ~DataIsDict(req.body)
        THEN done("'list' object has no attribute 'get'", FALSE)
        ELSE IF ~cfg.bucket
        THEN done("LOGS_BUCKET no esta configurado", FALSE)
        ELSE IF ~up
        THEN done("upload failed", FALSE)
        ELSE done("", TRUE)

NoPorTipo == [t \in {} |-> 0]

Response(ep, status) ==
    [ep |-> ep, status |-> status, escaped |-> FALSE, keys |-> {},
     ok |-> FALSE, error |-> "",
     fecha |-> -1, total_eventos |-> 0, por_tipo |-> NoPorTipo,
     email_enviado |-> FALSE, email_error |-> ""]

\* the request and the answers of its environment, as `last` keeps them
NoKey == [folder |-> -1, ts |-> -1, suffix |-> "", ext |-> ""]
NoReq == [body |-> Body("none", Absent, Absent, Absent),
          remote_addr |-> Absent, xff |-> Absent, ua |-> Absent]
NoLast ==
    [req |-> NoReq, now |-> -1, key |-> NoKey, up |-> FALSE,
     fechaArg |-> -1, faults |-> {}, smtp |-> ""]

NoMail == [sent |-> FALSE, fecha |-> -1, total |-> 0, attachment |-> <<>>]

\* POST /api/log_evento
LogEvento(req, now, today, suffix, up) ==
    LET run == LogEventoRun(req, now, today, suffix, up) IN
    /\ accepted < MaxRequests
    /\ clock' = today
    /\ last' = [NoLast EXCEPT !.req = req, !.now = now, !.key = run.key, !.up = up]
    /\ store' = IF run.wrote
                THEN [k \in DOMAIN store \cup {run.key} |->
                        IF k = run.key THEN run.content ELSE store[k]]
                ELSE store
    /\ IF run.raised = ""
       THEN /\ accepted' = accepted + 1
            /\ resp' = [Response("log_evento", 200) EXCEPT
                          !.keys = {"ok"}, !.ok = TRUE]
       ELSE /\ accepted' = accepted
            /\ resp' = [Response("log_evento", 500) EXCEPT
                          !.keys = {"ok", "error"}, !.ok = FALSE, !.error = run.raised]
    /\ listing' = <<>> /\ eventos' = <<>> /\ csv_text' = <<>> /\ mail' = NoMail
    /\ UNCHANGED cfg

\* OPTIONS /api/log_evento
Preflight ==
    /\ resp' = Response("preflight", 204)
    /\ last' = NoLast
    /\ listing' = <<>> /\ eventos' = <<>> /\ csv_text' = <<>> /\ mail' = NoMail
    /\ UNCHANGED <<cfg, clock, store, accepted>>

----------------------------------------------------------------------------
(* Daily summary *)

\* the outcomes of one SMTP session: it goes through, or login or
\* send_message raises
SmtpOutcomes == {"ok", "login", "send"}

\* bucket.list_blobs(prefix=f"events/{fecha_str}/"): the names under the prefix
Listed(fecha) == {k \in DOMAIN store : k.folder = fecha}

\* the orders in which a listing can return the names of S
Orders(S) ==
    {o \in [1..Cardinality(S) -> S] : \A i, j \in 1..Cardinality(S) : o[i] = o[j] => i = j}

\* blob.download_as_text() raises: the download fails or the bytes are not text
DownloadRaises(k, faults) == k \in faults \/ store[k].enc # "utf8"

\* the body of the loop of _leer_eventos_fecha appends the blob's value
Appended(k, faults) == ~DownloadRaises(k, faults) /\ ~JsonLoadsRaises(store[k].text)

\* _leer_eventos_fecha, given the listing and the downloads that fail
LeerEventosFecha(order, faults) ==
    LET read == SelectSeq(order, LAMBDA k : Appended(k, faults))
    IN  [i \in 1..Len(read) |-> JsonLoads(store[read[i]].text)]

\* ev.get("tipo", "desconocido") of the tally
TipoOf(ev) == Get(ev.d, "tipo", Str("desconocido"))

\* _construir_resumen_y_csv raises: ev.get on a value that is no dict
\* (AttributeError), or a tipo that cannot be a dict key (TypeError)
ConstruirRaises(evs) ==
    \E i \in 1..Len(evs) : ~evs[i].isDict \/ ~Hashable(TipoOf(evs[i]))

\* a tally that notes each type once instead of counting it
PorTipoPresence(evs) ==
    [t \in {PyStr(TipoOf(evs[i])) : i \in 1..Len(evs)} |-> 1]

\* the tally por_tipo
PorTipo(evs) ==
    [t \in {PyStr(TipoOf(evs[i])) : i \in 1..Len(evs)} |->
        Cardinality({i \in 1..Len(evs) : PyStr(TipoOf(evs[i])) = t})]

CsvHeader == <<"fecha", "tipo", "ip", "detalle", "user_agent">>

CsvRow(ev) ==
    << PyStr(Get(ev.d, "fecha", Str(""))),
       PyStr(Get(ev.d, "tipo", Str(""))),
       PyStr(Get(ev.d, "ip", Str(""))),
       DumpsValue(Get(ev.d, "detalle", Obj("{}"))),
       PyStr(Get(ev.d, "user_agent", Str(""))) >>

\* a CSV whose rows come out in reverse
CsvTextReversed(evs) ==
    <<CsvHeader>> \o [i \in 1..Len(evs) |-> CsvRow(evs[Len(evs) + 1 - i])]

\* the CSV, one sequence of cells per row
CsvText(evs) == <<CsvHeader>> \o [i \in 1..Len(evs) |-> CsvRow(evs[i])]

\* len(eventos)
Total(evs) == Len(evs)

\* `if not (SMTP_USER and SMTP_PASS and SMTP_TO): return`
MailConfigured == cfg.smtp_user /\ cfg.smtp_pass /\ cfg.smtp_to

\* _enviar_correo_resumen raises: the SMTP session was opened and failed
EnviarRaises(smtp) == MailConfigured /\ smtp \in SmtpOutcomes \ {"ok"}

\* an email_enviado set whatever the try block did
EmailEnviadoAlways(smtp) == TRUE

\* the value of email_enviado after the try block of resumen_diario
EmailEnviado(smtp) == ~EnviarRaises(smtp)

\* request.args.get("fecha") or _today_str(); no parameter is -1
FechaStr(fechaArg) == IF fechaArg # -1 THEN fechaArg ELSE DayOf(clock)

\* GET /api/resumen_diario
ResumenDiario(fechaArg, up, order, faults, smtp) ==
    LET fecha == FechaStr(fechaArg)
        evs == LeerEventosFecha(order, faults)
        escapes == ~cfg.bucket \/ ~up \/ ConstruirRaises(evs)
    IN
    \* the bucket is listed and read only when it is configured and reachable,
    \* an SMTP session is opened only when the summary was built and mail is on
    /\ IF cfg.bucket /\ up
       THEN order \in Orders(Listed(fecha)) /\ faults \subseteq Listed(fecha)
       ELSE order = <<>> /\ faults = {}
    /\ IF MailConfigured /\ ~escapes THEN smtp \in SmtpOutcomes ELSE smtp = "none"
    /\ last' = [NoLast EXCEPT !.up = up, !.fechaArg = fechaArg,
                              !.faults = faults, !.smtp = smtp]
    /\ listing' = IF cfg.bucket /\ up THEN order ELSE <<>>
    /\ eventos' = IF cfg.bucket /\ up THEN evs ELSE <<>>
    /\ IF escapes
       THEN /\ resp' = [Response("resumen_diario", 500) EXCEPT !.escaped = TRUE]
            /\ csv_text' = <<>>
            /\ mail' = NoMail
       ELSE /\ csv_text' = CsvText(evs)
            /\ mail' = IF MailConfigured /\ smtp = "ok"
                       THEN [sent |-> TRUE, fecha |-> fecha, total |-> Total(evs),
                             attachment |-> CsvText(evs)]
                       ELSE NoMail
            /\ resp' = [Response("resumen_diario", 200) EXCEPT
                          !.keys = {"fecha", "total_eventos", "por_tipo", "email_enviado"}
                                   \cup (IF EnviarRaises(smtp) THEN {"email_error"} ELSE {}),
                          !.fecha = fecha,
                          !.total_eventos = Total(evs),
                          !.por_tipo = PorTipo(evs),
                          !.email_enviado = EmailEnviado(smtp),
                          !.email_error = IF EnviarRaises(smtp) THEN smtp ELSE ""]
    /\ UNCHANGED <<cfg, clock, store, accepted>>

----------------------------------------------------------------------------
(* Specifications *)

Configs == [bucket : BOOLEAN, smtp_user : BOOLEAN, smtp_pass : BOOLEAN, smtp_to : BOOLEAN]
MailOff == {c \in Configs : ~c.smtp_user /\ ~c.smtp_pass /\ ~c.smtp_to}

NoStore == [k \in {} |-> Blob(JsonDumps(<<>>, <<>>))]

InitCommon ==
    /\ last = NoLast
    /\ accepted = 0
    /\ resp = Response("none", 0)
    /\ listing = <<>>
    /\ eventos = <<>>
    /\ csv_text = <<>>
    /\ mail = NoMail

\* Spec: ingestion on an empty bucket while the clock runs. The requests
\* come through a proxy, with one of three bodies.
TimedBodies ==
    { Body("object", Absent, Str("click"), Obj("{x:1}")),
      Body("object", Absent, Absent, Obj("{}")),
      Body("value", Lst("[1]"), Absent, Absent) }

Init ==
    /\ InitCommon
    /\ cfg \in MailOff
    /\ clock = 0
    /\ store = NoStore

Next ==
    \/ \E req \in {r \in Requests : r.body \in TimedBodies /\ r.xff # Absent},
          now \in clock..MaxClock, suffix \in Suffixes, up \in BOOLEAN :
         \E today \in {t \in {now, now + 1} : t <= MaxClock} :
            LogEvento(req, now, today, suffix, up)
    \/ Preflight

Spec == Init /\ [][Next]_vars

\* DaySpec: every request body, within one second of one day, and the
\* summary of that day and of the next, read from a bucket that answers.
DaySuffixes == Suffixes \cup {"0f9e8d"}

DayNext ==
    \/ \E req \in {r \in Requests : r.xff = Absent},
          suffix \in DaySuffixes, up \in BOOLEAN :
         LogEvento(req, clock, clock, suffix, up)
    \/ Preflight
    \/ \E fechaArg \in {-1, DayOf(MaxClock)} :
         \E order \in Orders(Listed(FechaStr(fechaArg))) \cup {<<>>} :
            ResumenDiario(fechaArg, TRUE, order, {}, "none")

DaySpec == Init /\ [][DayNext]_vars

\* StoreSpec: one summary request over a bucket that holds anything.
StoredEvent(tipo) ==
    [k \in {f \in {"tipo", "detalle", "fecha", "ip", "user_agent"} :
              f = "tipo" => tipo # Absent} |->
        CASE k = "tipo" -> tipo
          [] k = "detalle" -> Obj("{}")
          [] k = "fecha" -> IsoFormat(0)
          [] k = "ip" -> Str("10.0.0.1")
          [] k = "user_agent" -> Str("Mozilla")]

Garbage == [syntax |-> "garbage", pairs |-> <<>>, val |-> Absent]

StoreContents ==
    { Blob(JsonDumps(StoredEvent(Str("click")), EventFields)),
      Blob(JsonDumps(StoredEvent(Str("desconocido")), EventFields)),
      Blob(JsonDumps(StoredEvent(Absent), Tail(EventFields))),
      Blob(JsonDumps(StoredEvent(Lst("[1]")), EventFields)),
      Blob([syntax |-> "value", pairs |-> <<>>, val |-> Lst("[1]")]),
      Blob(Garbage),
      [enc |-> "bytes", text |-> Garbage] }

StoreKeys == {BlobName(0, 0, ToString(i)) : i \in 1..MaxObjects}

StoreInit ==
    /\ InitCommon
    /\ cfg \in Configs
    /\ clock = MaxClock
    /\ \E K \in SUBSET StoreKeys : store \in [K -> StoreContents]

StoreNext ==
    /\ resp.ep = "none"
    /\ \E fechaArg \in {-1, 0}, up \in BOOLEAN :
         \E order \in Orders(Listed(FechaStr(fechaArg))) \cup {<<>>},
            faults \in SUBSET Listed(FechaStr(fechaArg)),
            smtp \in SmtpOutcomes \cup {"none"} :
            ResumenDiario(fechaArg, up, order, faults, smtp)

StoreSpec == StoreInit /\ [][StoreNext]_vars

----------------------------------------------------------------------------
(* Properties *)

\* what the stored text of blob k says, read off the text itself
IsEventObject(k) == store[k].enc = "utf8" /\ store[k].text.syntax = "object"
Member(k, name) ==
    LET p == store[k].text.pairs
    IN  IF \E i \in 1..Len(p) : p[i][1] = name
        THEN p[CHOOSE i \in 1..Len(p) : p[i][1] = name][2]
        ELSE Absent
MemberOr(k, name, default) == IF Member(k, name) = Absent THEN default ELSE Member(k, name)

RECURSIVE SumOver(_, _)
SumOver(f, S) ==
    IF S = {} THEN 0 ELSE LET x == CHOOSE x \in S : TRUE IN f[x] + SumOver(f, S \ {x})

\* the instant an isoformat text stands for
ParseIso(v) == CHOOSE t \in 0..MaxClock : IsoFormat(t) = v

\* the last request was a summary request that was answered with a summary
Summarised == resp.ep = "resumen_diario" /\ resp.status = 200 /\ ~resp.escaped

\* the event objects of the summarised day that were downloaded
ReadEvents == {k \in Listed(resp.fecha) : IsEventObject(k) /\ k \notin last.faults}

(* C1 as stated: each count of por_tipo is the number of stored event objects
   of the date whose type field equals the key, total_eventos is the sum of
   the counts and the number of parsed event objects. *)
C1_CountsEqualStoredTypeFields ==
    Summarised =>
        /\ \A t \in DOMAIN resp.por_tipo :
              resp.por_tipo[t] =
                 Cardinality({k \in Listed(resp.fecha) :
                                 IsEventObject(k) /\ Member(k, "tipo") = Str(t)})
        /\ resp.total_eventos = SumOver(resp.por_tipo, DOMAIN resp.por_tipo)
        /\ resp.total_eventos = Len(eventos)

(* C1 amended: each count of por_tipo is the number of event objects of the
   date that were read and parsed and whose type field, taken as
   "desconocido" when the object has none, equals the key; total_eventos is
   the sum of the counts and the number of event objects read and parsed. *)
C1_CountsEqualReadTypes ==
    Summarised =>
        /\ \A t \in DOMAIN resp.por_tipo :
              resp.por_tipo[t] =
                 Cardinality({k \in ReadEvents :
                                 MemberOr(k, "tipo", Str("desconocido")) = Str(t)})
        /\ resp.total_eventos = SumOver(resp.por_tipo, DOMAIN resp.por_tipo)
        /\ resp.total_eventos = Cardinality(ReadEvents)

\* a summary that counts two events of one type, one of them without a tipo
C1_Witness ==
    /\ Summarised
    /\ resp.total_eventos = 2
    /\ DOMAIN resp.por_tipo = {"desconocido"}
    /\ \E k \in ReadEvents : Member(k, "tipo") = Absent

----------------------------------------------------------------------------
\* the three submissions of the scenario of C2, as DaySpec sends them
ScenarioBodies ==
    { Body("object", Absent, Str("click"), Obj("{x:1}")),
      Body("object", Absent, Str("click"), Obj("{x:2}")),
      Body("object", Absent, Absent, Obj("{}")) }
ScenarioBlob(b) ==
    Blob(JsonDumps(Evento([body |-> b, remote_addr |-> Str("10.0.0.1"),
                           xff |-> Absent, ua |-> Str("Mozilla")], 0), EventFields))

\* three accepted submissions left the three events of the scenario in the
\* bucket, under day 0, and the summary of day 0 was then read back whole
C2_Scenario ==
    /\ accepted = 3
    /\ Cardinality(DOMAIN store) = 3
    /\ {store[k] : k \in DOMAIN store} = {ScenarioBlob(b) : b \in ScenarioBodies}
    /\ \A k \in DOMAIN store : k.folder = 0
    /\ Summarised
    /\ resp.fecha = 0
    /\ last.faults = {}

C3_MailOffReportsNotSent ==
    (resp.ep = "resumen_diario" /\ ~MailConfigured /\ ~resp.escaped) =>
        /\ ~mail.sent
        /\ resp.status = 200
        /\ ~resp.email_enviado
        /\ "email_error" \notin resp.keys

(* C4 as stated: every summary request, whatever the bucket holds and also
   when the bucket is not configured or not reachable, is answered 200 with
   the summary fields and email_enviado; nothing escapes the handler. *)
C4_SummaryAlwaysAnswered ==
    resp.ep = "resumen_diario" =>
        /\ resp.status = 200
        /\ ~resp.escaped
        /\ {"fecha", "total_eventos", "por_tipo", "email_enviado"} \subseteq resp.keys

(* C5: with mail configured, a summary request whose SMTP session fails is
   answered 200 with the fecha, total_eventos and por_tipo of the events read,
   email_enviado = false and a non-empty email_error, and no mail is sent;
   one whose session succeeds has email_enviado = true and no email_error. *)
C5_MailFailureContained ==
    (resp.ep = "resumen_diario" /\ MailConfigured /\ last.smtp \in SmtpOutcomes) =>
        /\ resp.status = 200 /\ ~resp.escaped
        /\ resp.fecha = FechaStr(last.fechaArg)
        /\ resp.total_eventos = Cardinality(ReadEvents)
        /\ resp.total_eventos = SumOver(resp.por_tipo, DOMAIN resp.por_tipo)
        /\ {"fecha", "total_eventos", "por_tipo", "email_enviado"} \subseteq resp.keys
        /\ last.smtp # "ok" =>
              /\ ~resp.email_enviado
              /\ "email_error" \in resp.keys /\ resp.email_error # ""
              /\ ~mail.sent
        /\ last.smtp = "ok" =>
              /\ resp.email_enviado
              /\ "email_error" \notin resp.keys
              /\ mail.sent /\ mail.total = resp.total_eventos

\* the SMTP login was refused while a summary of two events was being sent
C5_Witness ==
    /\ resp.ep = "resumen_diario" /\ MailConfigured
    /\ last.smtp = "login"
    /\ resp.total_eventos = 2

(* C6 as stated: with the bucket available, every object of the date that
   cannot be read and parsed as an event record is left out, the summary is
   still returned, and every other event object is counted once, in
   total_eventos and in the CSV. *)
C6_CorruptObjectsSkipped ==
    (resp.ep = "resumen_diario" /\ cfg.bucket /\ last.up) =>
        /\ resp.status = 200 /\ ~resp.escaped
        /\ resp.total_eventos =
              Cardinality({k \in Listed(FechaStr(last.fechaArg)) :
                              IsEventObject(k) /\ k \notin last.faults})
        /\ Len(csv_text) = resp.total_eventos + 1

(* C7 as stated: the bucket holds one object per accepted submission, each
   under the UTC date of the timestamp stamped into its event, and the object
   written last reads back as the submitted and stamped values. *)
C7_OneObjectPerSubmission ==
    /\ Cardinality(DOMAIN store) = accepted
    /\ \A k \in DOMAIN store :
          /\ k.folder = DayOf(ParseIso(Member(k, "fecha")))
          /\ k.ts = SecOf(ParseIso(Member(k, "fecha")))
          /\ k.suffix \in Suffixes
    /\ (resp.ep = "log_evento" /\ resp.status = 200) =>
          /\ last.key \in DOMAIN store
          /\ JsonLoads(store[last.key].text).isDict
          /\ JsonLoads(store[last.key].text).d = Evento(last.req, last.now)

(* C8 as stated: with the bucket available, every POST body is answered 200
   with ok = true and one event is stored. *)
C8_EveryBodyAccepted ==
    (resp.ep = "log_evento" /\ cfg.bucket /\ last.up) =>
        /\ resp.status = 200
        /\ resp.ok
        /\ last.key \in DOMAIN store

(* C9: a POST is always answered by the handler: with 500 and
   {ok: false, error: <message>} when a step failed (the bucket is not
   configured, the upload failed), and then the bucket is as it was; with 200
   and ok = true only when the object was written. *)
C9_IngestionFaultsContained ==
    [][ resp'.ep = "log_evento" =>
          /\ ~resp'.escaped
          /\ resp'.status \in {200, 500}
          /\ (~cfg.bucket \/ ~last'.up) => resp'.status = 500
          /\ resp'.status = 500 =>
                /\ resp'.keys = {"ok", "error"}
                /\ ~resp'.ok /\ resp'.error # ""
                /\ store' = store
          /\ resp'.status = 200 =>
                /\ resp'.keys = {"ok"} /\ resp'.ok
                /\ last'.key \in DOMAIN store'
                /\ store'[last'.key] =
                      Blob(JsonDumps(Evento(last'.req, last'.now), EventFields))
      ]_vars

\* an upload failed after another had succeeded
C9_Witness ==
    /\ resp.ep = "log_evento" /\ resp.status = 500
    /\ cfg.bucket /\ ~last.up
    /\ DOMAIN store # {}

(* C10: the CSV of a summary is the header row and then one row per event
   read, in the order of the listing, so it has total_eventos data rows; for
   a date without objects total_eventos = 0, por_tipo is empty and the CSV is
   the header row alone. *)
C10_CsvRowsFollowListing ==
    Summarised =>
        LET read == SelectSeq(listing, LAMBDA k : k \in ReadEvents) IN
        /\ Len(csv_text) = resp.total_eventos + 1
        /\ csv_text[1] = <<"fecha", "tipo", "ip", "detalle", "user_agent">>
        /\ Len(read) = resp.total_eventos
        /\ \A i \in 1..Len(read) :
              /\ csv_text[i + 1][1] = MemberOr(read[i], "fecha", Str(""))[2]
              /\ csv_text[i + 1][2] = MemberOr(read[i], "tipo", Str(""))[2]
              /\ csv_text[i + 1][3] = MemberOr(read[i], "ip", Str(""))[2]
              /\ csv_text[i + 1][4] = DumpsValue(MemberOr(read[i], "detalle", Obj("{}")))
              /\ csv_text[i + 1][5] = MemberOr(read[i], "user_agent", Str(""))[2]
        /\ Listed(resp.fecha) = {} =>
              /\ resp.total_eventos = 0
              /\ DOMAIN resp.por_tipo = {}
              /\ Len(csv_text) = 1

\* a CSV of two different rows
C10_Witness ==
    /\ Summarised
    /\ Len(listing) >= 2
    /\ resp.total_eventos = 2
    /\ csv_text[2] # csv_text[3]

====
